---------------------------- MODULE Spec2Model ----------------------------
(***************************************************************************)
(* Model of Sunlix.Arduino.TimeService: the edge-bound hardware clock      *)
(* provider (RtcDateTimeProvider), the uptime provider                     *)
(* (UptimeDateTimeProvider) and the facade (TimeService), together with    *)
(* the environment they run in: the free-running micros()/millis()         *)
(* counters, the DS3231 and its 1 Hz square-wave edge interrupt.           *)
(*                                                                         *)
(* Normal-context code is cut into steps at the points where the edge      *)
(* interrupt can preempt it; a noInterrupts()/interrupts() section is one  *)
(* step.  TLC's integers are 32-bit signed, so a uint32_t is held as the   *)
(* signed integer with the same bit pattern (Add32/Sub32 below).           *)
(***************************************************************************)
EXTENDS Integers, Naturals, Sequences, FiniteSets, TLC

\* ------------------------------------------------------------- bounds ----
\* Number of time steps (grid instants) explored.
MaxSteps == 5
\* Number of calls the application makes.
MaxCalls == 3

\* ---------------------------------------------------------- constants ----
UsPerSecond == 1000000
UsPerMilli == 1000
DefaultBindTimeoutMs == 1500

\* Largest signed 32-bit integer (2^31 - 1) and the bit pattern below it.
MaxI32 == 2147483646 + 1
MinI32 == (-MaxI32) - 1

\* uint32_t a + d (d >= 0), on bit patterns: wraps from 2^32 - 1 to 0.
Add32(a, d) ==
  IF a <= MaxI32 - d THEN a + d ELSE MinI32 + (d - (MaxI32 - a) - 1)

\* uint32_t a - b, "wrap-safe (unsigned)": the difference modulo 2^32 as a
\* natural number.  Differences of 2^31 or more are not representable and
\* stop TLC with an overflow error instead of giving a wrong number.
Sub32(a, b) ==
  IF a >= b THEN a - b ELSE (a - MinI32) + (MaxI32 - b) + 1

\* Instants of one hardware second (microseconds after the edge) at which the
\* model looks at the system: on the edge and shortly after it.
PhaseGrid == {0, 2000}

NextPhase(p) ==
  IF \E q \in PhaseGrid : q > p
  THEN CHOOSE q \in PhaseGrid : q > p /\ \A r \in PhaseGrid : r > p => q <= r
  ELSE UsPerSecond

\* ------------------------------------------------------------ calendar ---
\* A leap rule without the century exception.
isLeapEveryFourYears(y) == y % 4 = 0

\* UptimeDateTimeProvider::isLeap
isLeap(y) == ((y % 4 = 0) /\ (y % 100 # 0)) \/ (y % 400 = 0)

dm == <<31, 28, 31, 30, 31, 30, 31, 31, 30, 31, 30, 31>>

\* UptimeDateTimeProvider::daysInMonth
daysInMonth(y, m) == IF m = 2 THEN dm[2] + (IF isLeap(y) THEN 1 ELSE 0) ELSE dm[m]

DateTime(y, mo, d, h, mi, s, msec) ==
  [year |-> y, month |-> mo, day |-> d, hour |-> h, minute |-> mi,
   second |-> s, millis |-> msec]

\* addSeconds' day rollover at the end of a month: the first day of the next
\* month, or of the next year (a uint16_t).
NextDay(t) ==
  IF t.month < 12
  THEN [t EXCEPT !.day = 1, !.month = t.month + 1]
  ELSE [t EXCEPT !.day = 1, !.month = 1, !.year = (t.year + 1) % 65536]

\* addSeconds' "while (daysAdd--)" loop: t is out at the head of the loop.
RECURSIVE AddDays(_, _)
AddDays(t, n) ==
  IF n = 0 THEN t
  ELSE IF t.day < daysInMonth(t.year, t.month)
       THEN AddDays([t EXCEPT !.day = t.day + 1], n - 1)
       ELSE AddDays(NextDay(t), n - 1)

\* UptimeDateTimeProvider::addSeconds (millis is left as in the input; the
\* caller sets it).
addSeconds(in, add_s) ==
  LET sod   == in.hour * 3600 + in.minute * 60 + in.second
      total == sod + add_s
      tod   == [in EXCEPT !.hour   = (total \div 3600) % 24,
                          !.minute = (total \div 60) % 60,
                          !.second = total % 60]
  IN AddDays(tod, total \div 86400)

RECURSIVE DaysBeforeMonth(_, _)
DaysBeforeMonth(y, m) ==
  IF m = 1 THEN 0 ELSE DaysBeforeMonth(y, m - 1) + daysInMonth(y, m - 1)

\* rtclibFromApp(t) followed by ::DateTime::unixtime(): the whole second the
\* DS3231 holds for the calendar time t (years 2000..2099, as the DS3231).
UnixOf(t) ==
  LET y    == t.year - 2000
      days == (t.day - 1) + DaysBeforeMonth(t.year, t.month)
              + 365 * y + ((y + 3) \div 4)
  IN 946684800   \* RTClib's SECONDS_FROM_1970_TO_2000
     + ((days * 24 + t.hour) * 60 + t.minute) * 60 + t.second

\* --------------------------------------------------------------- state ---
VARIABLES
  cfg,          \* TimeService::Config / RtcDateTimeProvider::Config (fixed)
  \* environment
  us,           \* micros(): free-running uint32_t microsecond counter
  ms,           \* millis(): free-running uint32_t millisecond counter
  phase,        \* microseconds since the DS3231's last second boundary
  steps,        \* time steps taken so far (bounded by MaxSteps)
  calls,        \* calls the application has made (bounded by MaxCalls)
  rtcSec,       \* the whole second the DS3231 holds (unixtime)
  hwLost,       \* the DS3231's power-loss flag (rtc->lostPower())
  pending,      \* an edge interrupt is raised and not yet handled
  hwTicks,      \* second boundaries of the DS3231 so far (history)
  \* RtcDateTimeProvider
  status,       \* status_
  bound,        \* bound_
  baseUnix,     \* baseUnix_
  baseEdgeUs,   \* baseEdgeUs_
  lastIsrUs,    \* lastIsrUs_
  edgeSeq,      \* edgeSeq_
  s_active,     \* s_active_ installed and the interrupt attached
  pc,           \* position of the normal-context code inside the provider
  op,           \* the provider operation in progress: its bind returns there
  loc,          \* locals: seq0, startMs, edgeUs, dt, bound, baseUnix, baseEdge
  ret,          \* the last provider call that returned: [op, ok]
  out,          \* the last DateTime a provider's nowUtc() filled in
  \* history of the provider, for the properties
  pre,          \* edge-binding state and status when adjust() was entered
  bus,          \* hardware transactions since the current call was entered
  tags,         \* which hardware edge each captured micros() value belongs to,
                \* and how many times the anchor pair has been written
  lastN,        \* seconds the last handler invocation added to baseUnix_
  \* UptimeDateTimeProvider
  up,           \* started_, status_, base_, t0_ms_
  upOut,        \* the last DateTime its nowUtc() filled in, and the result
  \* TimeService
  fpc,          \* the facade operation waiting for the RTC provider to return
  activeKind,   \* activeKind_ (active_ points to the provider of that kind)
  rtcProv,      \* rtcProv_ is allocated
  ntp,          \* ntpEverSynced_, ntpLastOk_, ntpLastAttemptMs_, ntpLastSuccessMs_
  fret,         \* the last facade call that returned: [op, ok]
  begun,        \* TimeService::begin() has returned at least once (history)
  sync,         \* the last ntpSync() that got past its guard (history)
  \* the calendar helper on its own
  cal           \* one call of addSeconds: its arguments and its result

envVars == <<us, ms, phase, steps, rtcSec, hwLost, pending, hwTicks>>
edgeVars == <<bound, baseUnix, baseEdgeUs, lastIsrUs, edgeSeq, tags, lastN>>
rtcVars == <<status, bound, baseUnix, baseEdgeUs, lastIsrUs, edgeSeq, s_active,
             pc, op, loc, ret, out, pre, bus, tags, lastN>>

upVars == <<up, upOut>>
facVars == <<fpc, activeKind, rtcProv, ntp, fret, begun, sync>>
vars == <<cfg, cal, calls, envVars, rtcVars, upVars, facVars>>

\* TimeStatus
TimeStatus == {"Ok", "NotStarted", "LostPower", "NoDevice"}

\* A captured edge: the second boundary it belongs to and how long after that
\* boundary micros() was read.
Tag(tick, lat) == [tick |-> tick, lat |-> lat]
NoTag == Tag(0, 0)

NoLoc == [seq0 |-> 0, startMs |-> 0, edgeUs |-> 0, dt |-> 0,
          snapBound |-> FALSE, snapBase |-> 0, snapEdge |-> 0, snapWrite |-> 0]
NoOut == [valid |-> FALSE, bound |-> FALSE, sec |-> 0, millis |-> 0,
          torn |-> FALSE]
NoPre == [bound |-> FALSE, baseUnix |-> 0, baseEdgeUs |-> 0, edgeSeq |-> 0,
          status |-> "NotStarted"]
NoRet == [op |-> "none", ok |-> FALSE]

NoUp == [started |-> FALSE, status |-> "NotStarted",
         base |-> DateTime(0, 0, 0, 0, 0, 0, 0), t0 |-> 0]
NoUpOut == [ok |-> FALSE, dt |-> DateTime(0, 0, 0, 0, 0, 0, 0)]
NoNtp == [everSynced |-> FALSE, lastOk |-> FALSE, lastAttemptMs |-> 0,
          lastSuccessMs |-> 0]

\* addSeconds has not been called on its own.
NoCal == [in |-> DateTime(0, 0, 0, 0, 0, 0, 0), add_s |-> 0,
          out |-> DateTime(0, 0, 0, 0, 0, 0, 0), called |-> FALSE]

\* No ntpSync() has run in the facade call just made.
NoSync == [ran |-> FALSE, fetchOk |-> FALSE, at |-> 0, preEver |-> FALSE,
           preSuccessMs |-> 0, result |-> "none"]

\* Calendar times the application passes to adjust() / the NTP fetch returns.
AdjustTimes == {DateTime(2024, 2, 28, 23, 59, 58, 250)}

\* Calendar times the application passes to the uptime provider's adjust():
\* before a leap day, before 1 March of a common year, before a new year, and
\* a date whose fields are each in the range DateTime documents (day 1..31)
\* but which the calendar does not have (29 February 2023).
UptimeAdjustTimes ==
  {DateTime(2024, 2, 28, 23, 59, 58, 250),
   DateTime(2023, 2, 28, 23, 59, 59, 0),
   DateTime(2023, 12, 31, 23, 59, 59, 999),
   DateTime(2023, 2, 29, 23, 59, 59, 0)}

\* The time the DS3231 holds when the program starts.
RtcStartTime == DateTime(2023, 12, 31, 23, 59, 57, 0)

\* --------------------------------------------------------- environment ---
\* Time passes up to the next instant of the grid.  Both counters advance; on
\* a second boundary the DS3231 steps its second and its square wave has an
\* edge, which reaches an attached interrupt pin or not (output off, line
\* lost) and raises the edge interrupt (an edge that finds the previous one
\* still unhandled is lost: the flag is a single bit).  The bind loop looks at
\* the edge counter once per delay(1), so time does not pass at its poll; nor
\* does it between the return of a provider and the facade going on.
Advance ==
  /\ steps < MaxSteps
  /\ pc \in {"idle", "bind_delay", "bind_read", "bind_write", "now_micros"}
  /\ ~(pc = "idle" /\ fpc # "idle")
  /\ LET np   == NextPhase(phase)
         d    == np - phase
         edge == (np = UsPerSecond)
     IN /\ us' = Add32(us, d)
        /\ ms' = Add32(ms, d \div UsPerMilli)
        /\ phase' = IF edge THEN 0 ELSE np
        /\ rtcSec' = IF edge THEN rtcSec + 1 ELSE rtcSec
        /\ hwTicks' = IF edge THEN hwTicks + 1 ELSE hwTicks
        /\ \E delivered \in BOOLEAN :
             pending' = (pending \/ (edge /\ delivered /\ s_active))
  /\ steps' = steps + 1
  /\ pc' = IF pc = "bind_delay" THEN "bind_poll" ELSE pc
  /\ UNCHANGED <<cfg, cal, calls, hwLost, status, edgeVars, s_active, op, loc,
                 ret, out, pre, bus, upVars, facVars>>

\* A handler that counts one second per invocation, whatever time has passed.
IsrSecondsAlwaysOne(d_us) == 1

\* onEdgeIsr_, lines 24-26: whole seconds the handler adds for d_us
\* microseconds since the anchor ("at least one second").
IsrSeconds(d_us) ==
  LET n == d_us \div UsPerSecond IN IF n = 0 THEN 1 ELSE n

\* isrThunk_ / onEdgeIsr_: runs between two steps of the normal-context code.
OnEdgeIsr ==
  /\ pending
  /\ s_active
  /\ pending' = FALSE
  /\ lastIsrUs' = us
  /\ edgeSeq' = Add32(edgeSeq, 1)
  /\ IF ~bound
     THEN /\ UNCHANGED <<bound, baseUnix, baseEdgeUs, lastN>>
          /\ tags' = [tags EXCEPT !.lastIsr = Tag(hwTicks, phase)]
     ELSE LET d_us == Sub32(us, baseEdgeUs)
              n    == IsrSeconds(d_us)
          IN /\ baseUnix' = Add32(baseUnix, n)
             /\ baseEdgeUs' = us
             /\ lastN' = n
             /\ tags' = [tags EXCEPT !.lastIsr = Tag(hwTicks, phase),
                                     !.prevAnchor = tags.anchor,
                                     !.anchor = Tag(hwTicks, phase),
                                     !.writes = tags.writes + 1]
             /\ UNCHANGED bound
  /\ UNCHANGED <<cfg, cal, calls, us, ms, phase, steps, rtcSec, hwLost, hwTicks,
                 status, s_active, pc, op, loc, ret, out, pre, bus,
                 upVars, facVars>>

\* The application makes one more call.
Called == calls < MaxCalls /\ calls' = calls + 1

\* ------------------------------------------------- RtcDateTimeProvider ---
LostPowerStatus == IF hwLost THEN "LostPower" ELSE "Ok"

Returned(o, ok) == [op |-> o, ok |-> ok]

\* What the provider's steps below leave alone.
providerFrame == <<cfg, cal, calls, us, ms, phase, steps, pending, hwTicks, upVars, facVars>>

\* begin(), lines 110-117: what begin() makes of the bind's result.
BeginTail(bindOk) ==
  IF ~bindOk /\ cfg.requireBind
  THEN [status |-> "NoDevice", ok |-> FALSE, bus |-> 0]
  ELSE [status |-> LostPowerStatus, ok |-> TRUE, bus |-> 1]

\* An adjust() that takes every bind result as the soft case.
AdjustTailSoft(bindOk) == [status |-> "Ok", ok |-> TRUE, bus |-> 0]

\* adjust(), lines 166-171: what adjust() makes of the bind's result.
AdjustTail(bindOk) ==
  IF ~bindOk /\ cfg.requireBind
  THEN [status |-> "NoDevice", ok |-> FALSE, bus |-> 0]
  ELSE [status |-> "Ok", ok |-> TRUE, bus |-> 0]

CallerTail(bindOk) == IF op = "begin" THEN BeginTail(bindOk) ELSE AdjustTail(bindOk)

\* begin(), lines 87-99: the device check and probe, the ISR target, the
\* square-wave mode and the interrupt.
BeginEnter ==
  /\ pc = "idle"
  /\ out' = NoOut
  /\ pre' = NoPre
  /\ loc' = NoLoc
  /\ \E responds \in BOOLEAN :
       IF ~cfg.rtc \/ ~responds
       THEN /\ status' = "NoDevice"
            /\ ret' = Returned("begin", FALSE)
            /\ bus' = IF cfg.rtc THEN 1 ELSE 0
            /\ UNCHANGED <<s_active, pc, op>>
       ELSE /\ s_active' = TRUE
            /\ bus' = IF cfg.enableSqw1Hz THEN 2 ELSE 1
            /\ pc' = "begin_clear"
            /\ op' = "begin"
            /\ ret' = NoRet
            /\ UNCHANGED status
  /\ UNCHANGED <<us, ms, phase, steps, rtcSec, hwLost, pending, hwTicks, edgeVars>>

\* begin(), lines 101-107: "Clear base".
BeginClear ==
  /\ pc = "begin_clear"
  /\ bound' = FALSE
  /\ baseUnix' = 0
  /\ baseEdgeUs' = 0
  /\ edgeSeq' = 0
  /\ tags' = [tags EXCEPT !.writes = tags.writes + 1]
  /\ pc' = "bind_snap"
  /\ UNCHANGED <<providerFrame, rtcSec, hwLost, status, lastIsrUs, s_active,
                 op, loc, ret, out, pre, bus, lastN>>

\* bindOnNextEdge_, lines 51-56: snapshot of the edge counter, start time.
BindSnapshot ==
  /\ pc = "bind_snap"
  /\ loc' = [loc EXCEPT !.seq0 = edgeSeq, !.startMs = ms]
  /\ pc' = "bind_poll"
  /\ UNCHANGED <<providerFrame, rtcSec, hwLost, status, edgeVars, s_active,
                 op, ret, out, pre, bus>>

\* A timeout test that never fires.
TimedOutNever(timeoutMs, nowMs, startMs) == FALSE

\* The timeout test of line 77.
TimedOut(timeoutMs, nowMs, startMs) ==
  timeoutMs # 0 /\ Sub32(nowMs, startMs) >= timeoutMs

\* bindOnNextEdge_, lines 58-64 and 77-80: one round of the poll loop.  On a
\* timeout the procedure returns false and the caller's tail runs.
BindPoll ==
  /\ pc = "bind_poll"
  /\ IF edgeSeq # loc.seq0
     THEN /\ loc' = [loc EXCEPT !.edgeUs = lastIsrUs]
          /\ tags' = [tags EXCEPT !.edge = tags.lastIsr]
          /\ pc' = "bind_read"
          /\ UNCHANGED <<status, op, ret, bus>>
     ELSE IF TimedOut(cfg.bindTimeoutMs, ms, loc.startMs)
     THEN LET r == CallerTail(FALSE)
          IN /\ status' = r.status
             /\ ret' = Returned(op, r.ok)
             /\ bus' = bus + r.bus
             /\ pc' = "idle"
             /\ op' = "none"
             /\ loc' = NoLoc
             /\ UNCHANGED tags
     ELSE /\ pc' = "bind_delay"
          /\ UNCHANGED <<status, op, ret, bus, loc, tags>>
  /\ UNCHANGED <<providerFrame, rtcSec, hwLost, bound, baseUnix, baseEdgeUs,
                 lastIsrUs, edgeSeq, lastN, s_active, out, pre>>

\* bindOnNextEdge_, lines 66-67: the hardware read ("seconds *after* the edge").
BindRead ==
  /\ pc = "bind_read"
  /\ IF ~cfg.rtc
     THEN /\ status' = "NoDevice"
          /\ ret' = Returned(op, CallerTail(FALSE).ok)
          /\ pc' = "idle"
          /\ op' = "none"
          /\ loc' = NoLoc
          /\ UNCHANGED bus
     ELSE /\ loc' = [loc EXCEPT !.dt = rtcSec]
          /\ bus' = bus + 1
          /\ pc' = "bind_write"
          /\ UNCHANGED <<status, op, ret>>
  /\ UNCHANGED <<providerFrame, rtcSec, hwLost, edgeVars, s_active, out, pre>>

\* bindOnNextEdge_, lines 68-74: the anchor pair is written and the procedure
\* returns true; the caller's tail runs.
BindWrite ==
  /\ pc = "bind_write"
  /\ baseUnix' = loc.dt
  /\ baseEdgeUs' = loc.edgeUs
  /\ bound' = TRUE
  /\ tags' = [tags EXCEPT !.anchor = tags.edge, !.prevAnchor = tags.edge,
                          !.writes = tags.writes + 1]
  /\ lastN' = 0
  /\ LET r == CallerTail(TRUE)
     IN /\ status' = r.status
        /\ ret' = Returned(op, r.ok)
        /\ bus' = bus + r.bus
  /\ pc' = "idle"
  /\ op' = "none"
  /\ loc' = NoLoc
  /\ UNCHANGED <<providerFrame, rtcSec, hwLost, lastIsrUs, edgeSeq, s_active,
                 out, pre>>

\* A nowUtc() that reads the hardware on every call.
NowReadsHardwareAlways(snapBound) == TRUE

\* nowUtc(), line 130: the seconds-only hardware read is taken when the
\* snapshot of bound_ is false.
NowReadsHardware(snapBound) == ~snapBound

\* nowUtc(), line 153: the status the bound path leaves.
NowBoundStatus(st) == IF st = "NotStarted" THEN "Ok" ELSE st

\* nowUtc(), lines 121-138: the device check, the snapshot of the anchor
\* (one critical section) and, when unbound, the hardware read.
NowEnter ==
  /\ pc = "idle"
  /\ pre' = NoPre
  /\ IF ~cfg.rtc
     THEN /\ status' = "NoDevice"
          /\ ret' = Returned("now", FALSE)
          /\ bus' = 0
          /\ UNCHANGED <<out, pc, op, loc>>
     ELSE IF NowReadsHardware(bound)
     THEN /\ out' = [valid |-> TRUE, bound |-> bound, sec |-> rtcSec,
                     millis |-> 0, torn |-> FALSE]
          /\ status' = LostPowerStatus
          /\ bus' = 2
          /\ ret' = Returned("now", TRUE)
          /\ UNCHANGED <<pc, op, loc>>
     ELSE /\ loc' = [NoLoc EXCEPT !.snapBound = bound, !.snapBase = baseUnix,
                                  !.snapEdge = baseEdgeUs,
                                  !.snapWrite = tags.writes]
          /\ pc' = "now_micros"
          /\ op' = "now"
          /\ bus' = 0
          /\ ret' = NoRet
          /\ UNCHANGED <<out, status>>
  /\ UNCHANGED <<us, ms, phase, steps, rtcSec, hwLost, pending, hwTicks,
                 edgeVars, s_active>>

\* A nowUtc() that reads baseEdgeUs_ where it is used, after its critical
\* section.
NowBaseEdgeReadLate(snapshot, current) == current

\* nowUtc(), lines 124-128: baseEdge is the copy of baseEdgeUs_ taken with
\* interrupts disabled, in the same critical section as baseUnix; `current`
\* is the field when the copy is used.  Each carries the number of the
\* anchor-pair write it comes from.
NowBaseEdge(snapshot, current) == snapshot

\* nowUtc(), lines 140-154: the bound path, from the snapshot and micros().
NowCompute ==
  /\ pc = "now_micros"
  /\ LET nowUs == us
         edge  == NowBaseEdge([value |-> loc.snapEdge, write |-> loc.snapWrite],
                              [value |-> baseEdgeUs, write |-> tags.writes])
         d_us  == Sub32(nowUs, edge.value)
         whole == d_us \div UsPerSecond
         remus == d_us - whole * UsPerSecond
     IN out' = [valid |-> TRUE, bound |-> loc.snapBound,
                sec |-> Add32(loc.snapBase, whole),
                millis |-> remus \div UsPerMilli,
                torn |-> edge.write # loc.snapWrite]
  /\ status' = NowBoundStatus(status)
  /\ ret' = Returned("now", TRUE)
  /\ pc' = "idle"
  /\ op' = "none"
  /\ loc' = NoLoc
  /\ UNCHANGED <<providerFrame, rtcSec, hwLost, edgeVars, s_active, pre, bus>>

\* adjust(), lines 158-162: the device check and the write of the whole
\* second to the DS3231 (which clears its power-loss flag).
AdjustEnter(t) ==
  /\ pc = "idle"
  /\ out' = NoOut
  /\ pre' = [bound |-> bound, baseUnix |-> baseUnix, baseEdgeUs |-> baseEdgeUs,
             edgeSeq |-> edgeSeq, status |-> status]
  /\ loc' = NoLoc
  /\ IF ~cfg.rtc
     THEN /\ status' = "NoDevice"
          /\ ret' = Returned("adjust", FALSE)
          /\ bus' = 0
          /\ UNCHANGED <<rtcSec, hwLost, pc, op>>
     ELSE /\ rtcSec' = UnixOf(t)
          /\ hwLost' = FALSE
          /\ bus' = 1
          /\ pc' = "adjust_unbind"
          /\ op' = "adjust"
          /\ ret' = NoRet
          /\ UNCHANGED status
  /\ UNCHANGED <<us, ms, phase, steps, pending, hwTicks, edgeVars, s_active>>

\* adjust(), line 165: the bound flag is cleared before the re-bind.
AdjustUnbind ==
  /\ pc = "adjust_unbind"
  /\ bound' = FALSE
  /\ pc' = "bind_snap"
  /\ UNCHANGED <<providerFrame, rtcSec, hwLost, status, baseUnix, baseEdgeUs,
                 lastIsrUs, edgeSeq, tags, lastN, s_active, op, loc, ret, out,
                 pre, bus>>

\* isBound()
isBound == bound

\* The provider's steps that follow a call's first one.
RtcStep ==
  \/ BeginClear
  \/ BindSnapshot
  \/ BindPoll
  \/ BindRead
  \/ BindWrite
  \/ NowCompute
  \/ AdjustUnbind

\* The application calls the provider directly.
RtcBegin == Called /\ BeginEnter /\ UNCHANGED <<cfg, cal, upVars, facVars>>
RtcNowUtc == Called /\ NowEnter /\ UNCHANGED <<cfg, cal, upVars, facVars>>
RtcAdjust ==
  /\ Called
  /\ \E t \in AdjustTimes : AdjustEnter(t)
  /\ UNCHANGED <<cfg, cal, upVars, facVars>>

\* ---------------------------------------------- UptimeDateTimeProvider ---
\* A begin() that anchors the base at counter value 0.
UpBegunAtZero(nowMs) ==
  [started |-> TRUE, status |-> "Ok",
   base |-> DateTime(2000, 1, 1, 0, 0, 0, 0), t0 |-> 0]

\* begin(): the default base 2000-01-01 00:00:00.000, anchored at millis().
UpBegun(nowMs) ==
  [started |-> TRUE, status |-> "Ok",
   base |-> DateTime(2000, 1, 1, 0, 0, 0, 0), t0 |-> nowMs]

\* An adjust() that keeps the caller's sub-second field in the base.
UpAdjustedKeepsMillis(u, t, nowMs) ==
  [started |-> TRUE, status |-> "Ok", base |-> t, t0 |-> nowMs]

\* adjust(t): begin() first when not started; the base is t with millis
\* forced to 0, anchored at millis().
UpAdjusted(u, t, nowMs) ==
  LET v == IF u.started THEN u ELSE UpBegun(nowMs)
  IN [v EXCEPT !.base = [t EXCEPT !.millis = 0], !.t0 = nowMs, !.status = "Ok"]

\* A nowUtc() whose elapsed time is not wrap-safe: a counter reading below the
\* anchor (as unsigned numbers) counts as no time elapsed.
UpNowNoWrap(u, nowMs) ==
  IF ~u.started
  THEN [up |-> [u EXCEPT !.status = "NotStarted"],
        out |-> [ok |-> FALSE, dt |-> DateTime(0, 0, 0, 0, 0, 0, 0)]]
  ELSE LET below   == (nowMs >= 0 /\ u.t0 < 0) \/ ((nowMs >= 0) = (u.t0 >= 0) /\ nowMs < u.t0)
           elapsed == IF below THEN 0 ELSE Sub32(nowMs, u.t0)
           add_s   == elapsed \div 1000
           msec    == elapsed % 1000
       IN [up |-> u,
           out |-> [ok |-> TRUE,
                    dt |-> [addSeconds(u.base, add_s) EXCEPT !.millis = msec]]]

\* nowUtc(): the provider after the call and what the call returns.
UpNow(u, nowMs) ==
  IF ~u.started
  THEN [up |-> [u EXCEPT !.status = "NotStarted"],
        out |-> [ok |-> FALSE, dt |-> DateTime(0, 0, 0, 0, 0, 0, 0)]]
  ELSE LET elapsed == Sub32(nowMs, u.t0)
           add_s   == elapsed \div 1000
           msec    == elapsed % 1000
       IN [up |-> u,
           out |-> [ok |-> TRUE,
                    dt |-> [addSeconds(u.base, add_s) EXCEPT !.millis = msec]]]

\* The RTC provider and the DS3231 are not touched by a step.
rtcUntouched ==
  UNCHANGED <<us, ms, phase, steps, rtcSec, hwLost, pending, hwTicks, rtcVars>>

\* The application calls the uptime provider directly.
UptimeBegin ==
  /\ Called
  /\ up' = UpBegun(ms)
  /\ upOut' = NoUpOut
  /\ fret' = Returned("begin", TRUE)
  /\ rtcUntouched
  /\ UNCHANGED <<cfg, cal, fpc, activeKind, rtcProv, ntp, begun, sync>>

UptimeNowUtc ==
  /\ Called
  /\ up' = UpNow(up, ms).up
  /\ upOut' = UpNow(up, ms).out
  /\ fret' = Returned("now", UpNow(up, ms).out.ok)
  /\ rtcUntouched
  /\ UNCHANGED <<cfg, cal, fpc, activeKind, rtcProv, ntp, begun, sync>>

UptimeAdjust ==
  /\ Called
  /\ \E t \in UptimeAdjustTimes : up' = UpAdjusted(up, t, ms)
  /\ upOut' = NoUpOut
  /\ fret' = Returned("adjust", TRUE)
  /\ rtcUntouched
  /\ UNCHANGED <<cfg, cal, fpc, activeKind, rtcProv, ntp, begun, sync>>

\* --------------------------------------------------------- TimeService ---
\* An attempt that also overwrites the record of earlier successes.
NtpAttemptClearsHistory(n, nowMs, ok) ==
  [n EXCEPT !.lastAttemptMs = nowMs, !.lastOk = ok, !.everSynced = ok]

\* ntpSync(), lines 69-73: the attempt and the fetch's result are recorded.
NtpAttempt(n, nowMs, ok) == [n EXCEPT !.lastAttemptMs = nowMs, !.lastOk = ok]

\* A failed adjust() that leaves the fetch's success on record.
NtpAdjustFailedUnrecorded(n) == n

\* ntpSync(), lines 80-83: the provider's adjust() failed.
NtpAdjustFailed(n) == [n EXCEPT !.lastOk = FALSE]

\* ntpSync(), lines 85-86: the success is recorded.
NtpSucceeded(n) == [n EXCEPT !.everSynced = TRUE, !.lastSuccessMs = n.lastAttemptMs]

\* A begin() that reports success only with the RTC provider active.
BeginReturnRtcOnly(kind) == kind = "Rtc"

\* begin(), line 48: return (active_ != nullptr).
BeginReturn(kind) == kind # "None"

\* What the facade call `caller` returns once the ntpSync() it ran returned ok.
AfterSync(caller, ok) ==
  IF caller = "begin" THEN Returned("begin", BeginReturn(activeKind')) ELSE Returned("ntpSync", ok)

\* ntpSync() past its guard (line 67), run by `caller` ("begin" or "ntpSync")
\* with the provider of kind `kind` active and the uptime provider in state u:
\* the attempt, the fetch, and the active provider's adjust().  The RTC
\* provider's adjust() takes further steps; the facade waits for it.
NtpSync(kind, u, caller) ==
  \E ok \in BOOLEAN, t \in AdjustTimes :
    LET tried == NtpAttempt(ntp, ms, ok)
        s0    == [ran |-> TRUE, fetchOk |-> ok, at |-> ms,
                  preEver |-> ntp.everSynced, preSuccessMs |-> ntp.lastSuccessMs,
                  result |-> "none"]
    IN IF ~ok
       THEN /\ ntp' = tried
            /\ up' = u
            /\ sync' = [s0 EXCEPT !.result = "false"]
            /\ fpc' = "idle"
            /\ fret' = AfterSync(caller, FALSE)
            /\ begun' = (begun \/ caller = "begin")
            /\ rtcUntouched
       ELSE IF kind = "Uptime"
       THEN /\ up' = UpAdjusted(u, t, ms)
            /\ ntp' = NtpSucceeded(tried)
            /\ sync' = [s0 EXCEPT !.result = "true"]
            /\ fpc' = "idle"
            /\ fret' = AfterSync(caller, TRUE)
            /\ begun' = (begun \/ caller = "begin")
            /\ rtcUntouched
       ELSE /\ AdjustEnter(t)
            /\ ntp' = tried
            /\ up' = u
            /\ sync' = s0
            /\ fpc' = IF caller = "begin" THEN "begin_ntp" ELSE "ntp"
            /\ fret' = NoRet
            /\ begun' = begun

\* begin() from the provider selection on: lines 26-28 (RTC provider began),
\* 31-35 (makeUptimeProvider_), 43-48 (optional NTP, the return value).
BeginContinue(rtcOk) ==
  LET kind == IF rtcOk THEN "Rtc" ELSE "Uptime"
      u    == IF rtcOk THEN up ELSE UpBegun(ms)
  IN /\ activeKind' = kind
     /\ IF cfg.ntpOnBegin /\ cfg.ntpFetchUtc
        THEN NtpSync(kind, u, "begin")
        ELSE /\ up' = u
             /\ fpc' = "idle"
             /\ fret' = Returned("begin", BeginReturn(kind))
             /\ begun' = TRUE
             /\ sync' = NoSync
             /\ rtcUntouched
             /\ UNCHANGED ntp

\* begin(), with makeRtcProvider_ up to the call of the RTC provider's begin().
FBegin ==
  /\ fpc = "idle"
  /\ pc = "idle"
  /\ Called
  /\ upOut' = NoUpOut
  /\ IF ~cfg.rtc
     THEN /\ BeginContinue(FALSE)
          /\ UNCHANGED rtcProv
     ELSE /\ rtcProv' = TRUE
          /\ BeginEnter
          /\ fpc' = "begin"
          /\ fret' = NoRet
          /\ sync' = NoSync
          /\ UNCHANGED <<up, activeKind, ntp, begun>>
  /\ UNCHANGED <<cfg, cal>>

\* begin() once the RTC provider's begin() has returned.
FBeginResume ==
  /\ fpc = "begin"
  /\ pc = "idle"
  /\ BeginContinue(ret.ok)
  /\ UNCHANGED <<cfg, cal, calls, upOut, rtcProv>>

\* ntpSync() called by the application.
FNtpSync ==
  /\ fpc = "idle"
  /\ pc = "idle"
  /\ Called
  /\ IF ~cfg.ntpFetchUtc \/ activeKind = "None"
     THEN /\ fret' = Returned("ntpSync", FALSE)
          /\ sync' = NoSync
          /\ rtcUntouched
          /\ UNCHANGED <<up, fpc, ntp, begun>>
     ELSE NtpSync(activeKind, up, "ntpSync")
  /\ UNCHANGED <<cfg, cal, upOut, activeKind, rtcProv>>

\* ntpSync() once the RTC provider's adjust() has returned (lines 80-87).
FNtpResume ==
  /\ fpc \in {"ntp", "begin_ntp"}
  /\ pc = "idle"
  /\ ntp' = IF ret.ok THEN NtpSucceeded(ntp) ELSE NtpAdjustFailed(ntp)
  /\ sync' = [sync EXCEPT !.result = IF ret.ok THEN "true" ELSE "false"]
  /\ fret' = IF fpc = "begin_ntp" THEN Returned("begin", BeginReturn(activeKind))
             ELSE Returned("ntpSync", ret.ok)
  /\ begun' = (begun \/ fpc = "begin_ntp")
  /\ fpc' = "idle"
  /\ rtcUntouched
  /\ UNCHANGED <<cfg, cal, calls, upVars, activeKind, rtcProv>>

\* nowUtc(): delegated to the active provider.
FNowUtc ==
  /\ fpc = "idle"
  /\ pc = "idle"
  /\ Called
  /\ sync' = NoSync
  /\ IF activeKind = "None"
     THEN /\ fret' = Returned("now", FALSE)
          /\ rtcUntouched
          /\ UNCHANGED <<upVars, fpc>>
     ELSE IF activeKind = "Uptime"
     THEN /\ up' = UpNow(up, ms).up
          /\ upOut' = UpNow(up, ms).out
          /\ fret' = Returned("now", UpNow(up, ms).out.ok)
          /\ rtcUntouched
          /\ UNCHANGED fpc
     ELSE /\ NowEnter
          /\ fpc' = "now"
          /\ fret' = NoRet
          /\ UNCHANGED upVars
  /\ UNCHANGED <<cfg, cal, activeKind, rtcProv, ntp, begun>>

\* adjust(t): delegated to the active provider.
FAdjust ==
  /\ fpc = "idle"
  /\ pc = "idle"
  /\ Called
  /\ sync' = NoSync
  /\ \E t \in AdjustTimes :
       IF activeKind = "None"
       THEN /\ fret' = Returned("adjust", FALSE)
            /\ rtcUntouched
            /\ UNCHANGED <<upVars, fpc>>
       ELSE IF activeKind = "Uptime"
       THEN /\ up' = UpAdjusted(up, t, ms)
            /\ upOut' = NoUpOut
            /\ fret' = Returned("adjust", TRUE)
            /\ rtcUntouched
            /\ UNCHANGED fpc
       ELSE /\ AdjustEnter(t)
            /\ fpc' = "adjust"
            /\ fret' = NoRet
            /\ UNCHANGED upVars
  /\ UNCHANGED <<cfg, cal, activeKind, rtcProv, ntp, begun>>

\* nowUtc() / adjust() once the RTC provider's call has returned.
FDelegateResume ==
  /\ fpc \in {"now", "adjust"}
  /\ pc = "idle"
  /\ fret' = Returned(fpc, ret.ok)
  /\ fpc' = "idle"
  /\ rtcUntouched
  /\ UNCHANGED <<cfg, cal, calls, upVars, activeKind, rtcProv, ntp, begun, sync>>

\* status(): delegated to the active provider.
FStatus ==
  IF activeKind = "None" THEN "NotStarted"
  ELSE IF activeKind = "Rtc" THEN status ELSE up.status

\* ------------------------------------------------------- initial state ---
\* The counters start shortly before they wrap (2^32 - 1200000 microseconds,
\* 2^32 - 1200 milliseconds), so both wrap during the time explored.
InitCounters == {<<-1200000, -1200>>}

InitProgram ==
  /\ status = "NotStarted"
  /\ bound = FALSE
  /\ baseUnix = 0
  /\ baseEdgeUs = 0
  /\ lastIsrUs = 0
  /\ edgeSeq = 0
  /\ s_active = FALSE
  /\ pc = "idle"
  /\ op = "none"
  /\ loc = NoLoc
  /\ ret = NoRet
  /\ out = NoOut
  /\ pre = NoPre
  /\ bus = 0
  /\ tags = [lastIsr |-> NoTag, edge |-> NoTag, anchor |-> NoTag,
             prevAnchor |-> NoTag, writes |-> 0]
  /\ lastN = 0
  /\ up = NoUp
  /\ upOut = NoUpOut
  /\ fpc = "idle"
  /\ activeKind = "None"
  /\ rtcProv = FALSE
  /\ ntp = NoNtp
  /\ fret = NoRet
  /\ begun = FALSE
  /\ sync = NoSync

\* The calendar helper is used only through the uptime provider.
InitNoCal == cal = NoCal

InitEnv(lost) ==
  /\ \E c \in InitCounters : us = c[1] /\ ms = c[2]
  /\ phase = 2000
  /\ steps = 0
  /\ calls = 0
  /\ rtcSec = UnixOf(RtcStartTime)
  /\ hwLost \in lost
  /\ pending = FALSE
  /\ hwTicks = 0

\* The application owns an RtcDateTimeProvider.
InitRtc ==
  /\ cfg \in [rtc : BOOLEAN, requireBind : BOOLEAN,
              bindTimeoutMs : {0, DefaultBindTimeoutMs},
              enableSqw1Hz : {TRUE}, ntpOnBegin : {FALSE}, ntpFetchUtc : {FALSE}]
  /\ InitEnv(BOOLEAN)
  /\ InitProgram
  /\ InitNoCal

NextRtc ==
  \/ Advance
  \/ OnEdgeIsr
  \/ RtcStep
  \/ RtcBegin
  \/ RtcNowUtc
  \/ RtcAdjust

SpecRtc == InitRtc /\ [][NextRtc]_vars

\* The processor keeps executing the normal-context code of a call in
\* progress, and the counters keep advancing while it waits in delay(1).
SpecRtcFair == SpecRtc /\ WF_vars(Advance \/ RtcStep)

\* The application owns an UptimeDateTimeProvider.
InitUptime ==
  /\ cfg = [rtc |-> FALSE, requireBind |-> FALSE,
            bindTimeoutMs |-> DefaultBindTimeoutMs, enableSqw1Hz |-> TRUE,
            ntpOnBegin |-> FALSE, ntpFetchUtc |-> FALSE]
  /\ InitEnv({FALSE})
  /\ InitProgram
  /\ InitNoCal

NextUptime ==
  \/ Advance
  \/ UptimeBegin
  \/ UptimeNowUtc
  \/ UptimeAdjust

SpecUptime == InitUptime /\ [][NextUptime]_vars

\* Normalized calendar times given to addSeconds: around the ends of February
\* in leap years (2000, 2024), common years (2023) and a century year that
\* is not a leap year (2100), the ends of 30- and 31-day months and of the
\* year, at midnight, noon and the last second of the day.
CalendarDays ==
  {<<1999, 12, 31>>, <<2000, 2, 28>>, <<2000, 2, 29>>, <<2023, 2, 28>>,
   <<2023, 4, 30>>, <<2023, 12, 31>>, <<2024, 1, 1>>, <<2024, 2, 28>>,
   <<2024, 2, 29>>, <<2024, 3, 1>>, <<2100, 2, 28>>, <<2100, 7, 31>>}

CalendarTimes == {<<0, 0, 0>>, <<12, 0, 0>>, <<23, 59, 59>>}

\* Offsets: none, a second, a minute and an hour carry, a day less and more a
\* second, one and two months (from 31 December into the end of February),
\* and the largest offset nowUtc() passes (floor((2^32 - 1) / 1000) seconds).
CalendarOffsets ==
  {0, 1, 60, 3600, 86399, 86400, 86401, 31 * 86400, 59 * 86400, 60 * 86400,
   4294967}

InitCalendar ==
  /\ cfg = [rtc |-> FALSE, requireBind |-> FALSE,
            bindTimeoutMs |-> DefaultBindTimeoutMs, enableSqw1Hz |-> TRUE,
            ntpOnBegin |-> FALSE, ntpFetchUtc |-> FALSE]
  /\ InitEnv({FALSE})
  /\ InitProgram
  /\ \E d \in CalendarDays, t \in CalendarTimes :
       cal = [NoCal EXCEPT
                !.in = DateTime(d[1], d[2], d[3], t[1], t[2], t[3], 0),
                !.out = DateTime(d[1], d[2], d[3], t[1], t[2], t[3], 0)]

\* addSeconds(in, add_s) is called.
AddSecondsCall ==
  /\ ~cal.called
  /\ \E n \in CalendarOffsets :
       cal' = [cal EXCEPT !.add_s = n, !.out = addSeconds(cal.in, n),
                          !.called = TRUE]
  /\ UNCHANGED <<cfg, calls, envVars, rtcVars, upVars, facVars>>

NextCalendar == AddSecondsCall

SpecCalendar == InitCalendar /\ [][NextCalendar]_vars

\* The application owns a TimeService.
Init ==
  /\ cfg \in [rtc : BOOLEAN, requireBind : BOOLEAN,
              bindTimeoutMs : {DefaultBindTimeoutMs},
              enableSqw1Hz : {TRUE}, ntpOnBegin : BOOLEAN, ntpFetchUtc : BOOLEAN]
  /\ InitEnv({FALSE})
  /\ InitProgram
  /\ InitNoCal

Next ==
  \/ Advance
  \/ OnEdgeIsr
  \/ RtcStep
  \/ FBegin
  \/ FBeginResume
  \/ FNtpSync
  \/ FNtpResume
  \/ FNowUtc
  \/ FAdjust
  \/ FDelegateResume

Spec == Init /\ [][Next]_vars

\* ------------------------------------------------------------ properties ---
\* out1 is not later than out2: whole second first, then millis.
NotLater(out1, out2) ==
  out1.sec < out2.sec \/ (out1.sec = out2.sec /\ out1.millis <= out2.millis)

\* C1: after a successful bind, with no adjust()/begin() in between (either
\* clears out), each nowUtc() of the RTC provider returns a time (whole second,
\* then millis) not earlier than the one the previous nowUtc() returned,
\* however the edge handler's invocations interleave.
C1_NowUtcNeverGoesBack ==
  [][(out.valid /\ out.bound /\ out'.valid /\ out'.bound) => NotLater(out, out')]_vars

\* adjust() has returned on a provider that was bound when it was called, with
\* requireBind set, and the edge handler has not run since the call was made.
AdjustWithoutEdge ==
  ret.op = "adjust" /\ pre.bound /\ cfg.requireBind /\ edgeSeq = pre.edgeSeq

\* C2 (as stated): adjust() on a bound provider with requireBind and no edge
\* within the timeout returns false with status NoDevice and leaves the
\* provider bound to the same anchor pair (bound flag, base second, base edge
\* micros) as before the call.
C2_AdjustTimeoutStillBound ==
  AdjustWithoutEdge =>
    /\ ~ret.ok
    /\ status = "NoDevice"
    /\ bound = pre.bound
    /\ baseUnix = pre.baseUnix
    /\ baseEdgeUs = pre.baseEdgeUs

\* C2 (amended): adjust() on a bound provider with requireBind and no edge
\* within the timeout returns false with status NoDevice; the anchor pair
\* (base second, base edge micros) is the one from before the call, and the
\* bound flag is cleared.
C2_AdjustTimeoutKeepsAnchor ==
  AdjustWithoutEdge =>
    /\ ~ret.ok
    /\ status = "NoDevice"
    /\ ~bound
    /\ baseUnix = pre.baseUnix
    /\ baseEdgeUs = pre.baseEdgeUs

\* An adjust() on a bound provider has timed out and returned.
C2_Witness == AdjustWithoutEdge /\ ~ret.ok /\ pre.baseUnix # 0

\* C3: an ntpSync() that runs with an active provider and whose fetch fails
\* returns false, records the attempt at the current millis() with ntpLastOk
\* false, and leaves ntpEverSynced and ntpLastSuccessMs as they were.
C3_FailedFetchTelemetry ==
  (sync.ran /\ ~sync.fetchOk) =>
    /\ sync.result = "false"
    /\ (fret.op = "ntpSync" => ~fret.ok)
    /\ ntp.lastAttemptMs = sync.at
    /\ ~ntp.lastOk
    /\ ntp.everSynced = sync.preEver
    /\ ntp.lastSuccessMs = sync.preSuccessMs

\* A fetch has failed after an earlier sync succeeded, at a later millis().
C3_Witness ==
  /\ sync.ran /\ ~sync.fetchOk /\ fret = Returned("ntpSync", FALSE)
  /\ sync.preEver /\ sync.at # sync.preSuccessMs

\* C4: TimeService::begin() without a hardware RTC returns true and leaves the
\* uptime provider active, whatever the NTP options and the fetch's outcome.
C4_BeginWithoutRtc ==
  (~cfg.rtc /\ fret.op = "begin") => (fret.ok /\ activeKind = "Uptime")

\* begin() without a hardware RTC has returned after its NTP fetch failed.
C4_Witness ==
  ~cfg.rtc /\ fret.op = "begin" /\ cfg.ntpOnBegin /\ sync.ran /\ ~sync.fetchOk

\* C5: once TimeService::begin() has returned, no later call (begin(),
\* nowUtc(), adjust(), status(), ntpSync()) changes the active provider.
C5_ActiveProviderFixed == [][begun => activeKind' = activeKind]_vars

\* C6: on a bound provider, with the handler as late after its edge as the
\* anchor was captured after its own (edges every 1,000,000 microseconds of
\* micros()), one handler invocation adds to the base second the number of
\* edge periods since the anchor edge -- 1 per edge, 2 when an edge was
\* missed -- and re-anchors to the captured micros().
C6_IsrAdvancesByPeriods ==
  [][(OnEdgeIsr /\ bound /\ tags.anchor.lat = phase) =>
       /\ baseUnix' = baseUnix + (hwTicks - tags.anchor.tick)
       /\ baseEdgeUs' = us
       /\ lastN' = hwTicks - tags.anchor.tick]_vars

\* One handler invocation has covered two edge periods.
C6_Witness ==
  /\ bound /\ lastN = 2
  /\ tags.anchor.lat = tags.prevAnchor.lat
  /\ tags.anchor.tick = tags.prevAnchor.tick + 2

\* C7: once the RTC provider's status is NoDevice it stays NoDevice across
\* every nowUtc() call (until begin() is called again).
C7_NoDeviceTerminal ==
  [][(status = "NoDevice" /\ (RtcNowUtc \/ NowCompute)) => status' = "NoDevice"]_vars

\* C8: once the status of an RTC provider that has been started is LostPower,
\* it stays LostPower across nowUtc() calls, edge interrupts and adjust()
\* calls that return false; only an adjust() that returns true clears it, to
\* Ok (begin() starts afresh).
C8_LostPowerSticky ==
  [][(status = "LostPower" /\ s_active /\ ret'.op # "begin") =>
       \/ status' = "LostPower"
       \/ (status' = "Ok" /\ ret' = Returned("adjust", TRUE))]_vars

\* C9: nowUtc() on an RTC provider (device configured) whose begin() has not
\* been called, or has failed at the device check, returns false with status
\* NotStarted.
C9_RtcNowBeforeBegin ==
  (cfg.rtc /\ ~s_active /\ ret.op = "now") => (~ret.ok /\ status = "NotStarted")

\* C10: a nowUtc() that finds the provider bound issues no hardware
\* transaction, and the edge handler issues none in any state.
C10_NoBusWhenBound ==
  /\ []((ret.op = "now" /\ out.valid /\ out.bound) => bus = 0)
  /\ [][OnEdgeIsr => bus' = bus]_vars

\* A bound nowUtc() has returned after the handler ran on the bound provider.
C10_Witness == ret = Returned("now", TRUE) /\ out.valid /\ out.bound /\ lastN > 0

\* A calendar time with every field in its valid range.
Normalized(t) ==
  /\ t.month \in 1..12
  /\ t.day >= 1
  /\ t.day <= (IF t.month \in {4, 6, 9, 11} THEN 30
               ELSE IF t.month # 2 THEN 31
               ELSE IF (t.year % 4 = 0 /\ t.year % 100 # 0) \/ t.year % 400 = 0
                    THEN 29 ELSE 28)
  /\ t.hour \in 0..23
  /\ t.minute \in 0..59
  /\ t.second \in 0..59
  /\ t.millis \in 0..999

\* C11: every timestamp a successful nowUtc() returns, after any sequence of
\* begin(), adjust() and nowUtc() calls, has all its fields normalized (month
\* 1..12, day 1..days of that month, hour 0..23, minute 0..59, second 0..59,
\* millis 0..999).
C11_OutputNormalized == upOut.ok => Normalized(upOut.dt)

\* C12: begin() on an uptime provider that has already begun (also after an
\* adjust()) leaves its observable state as it was: the same status and the
\* same time base and anchor, so nowUtc() goes on from the adjusted time.
C12_BeginIdempotent ==
  [][(UptimeBegin /\ up.started) =>
       (up'.status = up.status /\ up'.base = up.base /\ up'.t0 = up.t0)]_vars

\* Reference Gregorian arithmetic: the day number of a civil date (days since
\* 1970-01-01) and the civil date of a day number.
RefDayNumber(y, m, d) ==
  LET yy  == IF m <= 2 THEN y - 1 ELSE y
      era == yy \div 400
      yoe == yy - era * 400
      mp  == IF m > 2 THEN m - 3 ELSE m + 9
      doy == (153 * mp + 2) \div 5 + d - 1
      doe == yoe * 365 + yoe \div 4 - yoe \div 100 + doy
  IN era * 146097 + doe - 719468

RefCivil(z) ==
  LET zz  == z + 719468
      era == zz \div 146097
      doe == zz - era * 146097
      yoe == (doe - doe \div 1460 + doe \div 36524 - doe \div 146096) \div 365
      doy == doe - (365 * yoe + yoe \div 4 - yoe \div 100)
      mp  == (5 * doy + 2) \div 153
      d   == doy - (153 * mp + 2) \div 5 + 1
      m   == IF mp < 10 THEN mp + 3 ELSE mp - 9
      y   == yoe + era * 400 + (IF m <= 2 THEN 1 ELSE 0)
  IN <<y, m, d>>

\* t advanced by n seconds (millis kept).
RefAdd(t, n) ==
  LET total == t.hour * 3600 + t.minute * 60 + t.second + n
      date  == RefCivil(RefDayNumber(t.year, t.month, t.day) + total \div 86400)
      sod   == total % 86400
  IN DateTime(date[1], date[2], date[3], sod \div 3600, (sod \div 60) % 60,
              sod % 60, t.millis)

\* C13: for every normalized input and every offset of the bounded sets,
\* addSeconds returns the input advanced by exactly that many seconds in the
\* Gregorian calendar (day, month and year rollover, leap rule).
C13_AddSecondsMatchesCalendar ==
  cal.called => (cal.out = RefAdd(cal.in, cal.add_s) /\ Normalized(cal.out))

\* addSeconds has carried a day from 28 February into 29 February of a leap
\* year, and from 28 February into 1 March of a year that is not one.
C13_Witness ==
  /\ cal.called /\ cal.add_s = 86400 /\ cal.in.month = 2 /\ cal.in.day = 28
  /\ cal.in.year = 2100 /\ cal.out.month = 3 /\ cal.out.day = 1

\* The uptime provider's default base.
Epoch2000 == DateTime(2000, 1, 1, 0, 0, 0, 0)

\* t advanced by e milliseconds of the monotonic counter: whole seconds by the
\* calendar, the remainder as millis.
AfterMillis(t, e) == [RefAdd(t, e \div 1000) EXCEPT !.millis = e % 1000]

\* This step's nowUtc() of the uptime provider returns true with the time
\* `expected`.
UptimeNowReturns(expected) ==
  /\ upOut'.ok
  /\ fret' = Returned("now", TRUE)
  /\ upOut'.dt = expected

\* C14: begin() of the uptime provider always returns true with status Ok,
\* and a nowUtc() made when e milliseconds of millis() have elapsed since that
\* begin() returns 2000-01-01T00:00:00 advanced by floor(e/1000) seconds with
\* millis = e mod 1000 (2000-01-01T00:00:00.000 when e = 0).
C14_UptimeAfterBegin ==
  [][/\ UptimeBegin =>
          /\ fret' = Returned("begin", TRUE)
          /\ up'.status = "Ok" /\ up'.started
          /\ up'.base = Epoch2000 /\ up'.t0 = ms
     /\ (UptimeNowUtc /\ up.started /\ up.base = Epoch2000) =>
          UptimeNowReturns(AfterMillis(Epoch2000, Sub32(ms, up.t0)))]_vars

\* A nowUtc() after begin() has returned a time past the first second, and
\* not on a whole second.
C14_Witness ==
  /\ fret = Returned("now", TRUE) /\ upOut.ok /\ up.base = Epoch2000
  /\ upOut.dt.second >= 1 /\ upOut.dt.millis > 0

SyncCompleted == sync.ran /\ sync.result # "none"

\* In that ntpSync() the fetch and the active provider's adjust() both
\* succeeded (the uptime provider's adjust() always does).
SyncFullySucceeded ==
  /\ sync.fetchOk
  /\ activeKind = "Uptime" \/ ret = Returned("adjust", TRUE)

\* C16: after every ntpSync() with an active provider and a fetch function
\* the telemetry describes the attempts: the call returns true and ntpLastOk
\* is true exactly when the fetch and the provider's adjust() both succeeded;
\* ntpEverSynced is true exactly when this or an earlier attempt fully
\* succeeded; ntpLastSuccessMs is the ntpLastAttemptMs of the most recent
\* fully successful attempt, 0 if there was none.
C16_NtpTelemetryExact ==
  /\ ~ntp.everSynced => ntp.lastSuccessMs = 0
  /\ SyncCompleted =>
       /\ (sync.result = "true") = SyncFullySucceeded
       /\ fret.op = "ntpSync" => fret.ok = SyncFullySucceeded
       /\ ntp.lastOk = SyncFullySucceeded
       /\ ntp.lastAttemptMs = sync.at
       /\ ntp.everSynced = (sync.preEver \/ SyncFullySucceeded)
       /\ ntp.lastSuccessMs =
            IF SyncFullySucceeded THEN sync.at ELSE sync.preSuccessMs

\* An ntpSync() whose fetch succeeded and whose adjust() failed has returned.
C16_Witness ==
  /\ SyncCompleted /\ sync.fetchOk /\ ret = Returned("adjust", FALSE)
  /\ fret = Returned("ntpSync", FALSE)

\* C17: when the bind procedure succeeds (here in the provider's first call,
\* begin(), before any handler ran on the bound provider), the whole second
\* in baseUnix is the hardware second that began at the very edge whose
\* captured micros() is in baseEdgeUs, however edges interleave with the
\* procedure.
C17_AnchorPairConsistent ==
  (calls = 1 /\ ret = Returned("begin", TRUE) /\ bound /\ lastN = 0) =>
    baseUnix = UnixOf(RtcStartTime) + tags.anchor.tick

\* C18: the normal-context code reads and writes the edge-binding state with
\* interrupts disabled (each access is one step of the model), so in every
\* interleaving with the edge handler nowUtc() computes from an anchor pair
\* whose baseUnix and baseEdgeUs come from the same write, and its snapshot is
\* the pair the provider held when it was taken.
C18_NoTornAnchorPair ==
  /\ []((out.valid /\ out.bound) => ~out.torn)
  /\ [][(NowEnter /\ pc' = "now_micros") =>
         /\ loc'.snapBound = bound /\ loc'.snapBase = baseUnix
         /\ loc'.snapEdge = baseEdgeUs]_vars

\* A bound nowUtc() holds its snapshot and has yet to compute from it, and the
\* handler has re-anchored the provider in between.
C18_Witness ==
  /\ pc = "now_micros" /\ loc.snapBound
  /\ tags.writes # loc.snapWrite
  /\ <<baseUnix, baseEdgeUs>> # <<loc.snapBase, loc.snapEdge>>

\* begin() or adjust() has returned true and left the provider unbound: its
\* bind timed out with requireBind off (soft start).
SoftStarted ==
  /\ pc = "idle" /\ ~cfg.requireBind /\ ~bound
  /\ ret \in {Returned("begin", TRUE), Returned("adjust", TRUE)}

\* C19: soft start is temporary: an edge interrupt handled after begin() or
\* adjust() timed out with requireBind off leaves the provider bound, so that
\* nowUtc() no longer takes the seconds-only hardware-read path.
C19_SoftStartEndsAtFirstEdge ==
  [][(SoftStarted /\ OnEdgeIsr) => (bound' /\ ~NowReadsHardware(bound'))]_vars

\* Time steps a bind that starts now needs at most to reach its timeout
\* (DefaultBindTimeoutMs takes four steps of the grid).
BindHasTime == steps + 4 <= MaxSteps

\* C20: the bind procedure returns true only after an edge was counted past
\* its own snapshot of the edge counter, gives up only when no edge was
\* counted and a non-zero timeout has expired, and otherwise waits; so with a
\* non-zero timeout it eventually returns while millis() keeps advancing, and
\* with timeout 0 it never gives up and returns once an edge has been counted.
C20_BindTerminates ==
  /\ [][BindPoll =>
          \/ /\ pc' = "bind_read"
             /\ edgeSeq # loc.seq0
          \/ /\ pc' = "idle" /\ ~bound' /\ ret'.ok = ~cfg.requireBind
             /\ edgeSeq = loc.seq0
             /\ cfg.bindTimeoutMs # 0
             /\ Sub32(ms, loc.startMs) >= cfg.bindTimeoutMs
          \/ /\ pc' = "bind_delay"
             /\ edgeSeq = loc.seq0
             /\ cfg.bindTimeoutMs = 0 \/ Sub32(ms, loc.startMs) < cfg.bindTimeoutMs]_vars
  /\ [][BindWrite => (bound' /\ ret'.ok /\ pc' = "idle")]_vars
  /\ (pc = "bind_poll" /\ (edgeSeq # loc.seq0 \/ (cfg.bindTimeoutMs # 0 /\ BindHasTime)))
       ~> (pc = "idle")

\* A bind with a non-zero timeout has given up without an edge, under
\* requireBind.
C20_Witness ==
  /\ pc = "idle" /\ s_active /\ cfg.requireBind /\ cfg.bindTimeoutMs # 0
  /\ ret \in {Returned("begin", FALSE), Returned("adjust", FALSE)}
  /\ status = "NoDevice"

\* Calendar order of two timestamps: year, month, day, hour, minute, second,
\* then millis.
NotEarlier(a, b) ==
  LET ka == <<a.year, a.month, a.day, a.hour, a.minute, a.second, a.millis>>
      kb == <<b.year, b.month, b.day, b.hour, b.minute, b.second, b.millis>>
  IN \/ ka = kb
     \/ \E i \in 1..7 : /\ ka[i] < kb[i]
                        /\ \A j \in 1..(i - 1) : ka[j] = kb[j]

\* Whole seconds elapsed since the anchor, up to the most a 32-bit
\* millisecond counter can measure (4294967 s).
ElapsedSeconds == {0, 1, 2, 86399, 86400, 31 * 86400, 4294967}

\* C21: with no begin()/adjust() of the uptime provider in between (either
\* clears upOut), each nowUtc() returns a timestamp not earlier (whole second,
\* then millis) than the one the previous nowUtc() returned, also when
\* millis() has wrapped from 2^32 - 1 to 0 since the anchor was set; and the
\* whole second it derives from the base never decreases as the elapsed
\* seconds grow up to the 2^32 milliseconds the counter can measure.
C21_UptimeNowNonDecreasing ==
  /\ [][(UptimeNowUtc /\ upOut.ok /\ upOut'.ok) => NotEarlier(upOut.dt, upOut'.dt)]_vars
  /\ [](up.started =>
          \A s1, s2 \in ElapsedSeconds :
            s1 <= s2 => NotEarlier(addSeconds(up.base, s1), addSeconds(up.base, s2)))

\* A nowUtc() has returned a time past the base from an anchor set before
\* millis() wrapped, read after the wrap.
C21_Witness ==
  /\ fret = Returned("now", TRUE) /\ upOut.ok
  /\ up.t0 < 0 /\ ms >= 0
  /\ upOut.dt # up.base

=============================================================================
